---- MODULE Spec2Model ----
(***************************************************************************)
(* Model of releasetool/commands/tag/ruby.py: the interactive pipeline     *)
(* tag() that selects a release pull request, derives the release tag,     *)
(* extracts the changelog section, creates the GitHub release, comments on *)
(* the pull request and follows the CircleCI build.                        *)
(*                                                                         *)
(* Text is modelled as a sequence of one-character strings, so that the    *)
(* three regular expressions of the module are matched character by        *)
(* character.  An Optional[...] field of the Context is a record           *)
(* [set, val]: set = FALSE is Python's None.                               *)
(***************************************************************************)
EXTENDS Integers, Sequences, FiniteSets, TLC

\* ------------------------------------------------------------------ bounds
\* Longest response of list_pull_requests that is explored.
MaxPulls == 2
\* Largest number of sections of a CHANGELOG.md that is explored.
MaxSections == 2
\* Longest prefix of a CI status stream before it stops, raises or repeats.
MaxStatuses == 2

\* ------------------------------------------------------- program constants
\* pulls = [...][:30]
MaxCandidates == 30

\* -------------------------------------------------------------- characters
Digits == {"0", "1", "2", "3", "4", "5", "6", "7", "8", "9"}
UpperCase == <<"A", "B", "C", "D", "E", "F", "G", "H", "I", "J", "K", "L", "M",
               "N", "O", "P", "Q", "R", "S", "T", "U", "V", "W", "X", "Y", "Z">>
LowerCase == <<"a", "b", "c", "d", "e", "f", "g", "h", "i", "j", "k", "l", "m",
               "n", "o", "p", "q", "r", "s", "t", "u", "v", "w", "x", "y", "z">>
\* \d
IsDigit(c) == c \in Digits
\* [a-z-]
IsPkgChar(c) == c = "-" \/ \E i \in 1..26 : LowerCase[i] = c
\* \s, and the characters str.strip() removes
IsSpace(c) == c \in {" ", "\t", "\n", "\r", "\f"}
\* "." without re.DOTALL: any character but a newline
IsDot(c) == c # "\n"

\* str.lower(), one character
LowerChar(c) ==
  IF \E i \in 1..26 : UpperCase[i] = c
    THEN LowerCase[CHOOSE i \in 1..26 : UpperCase[i] = c]
    ELSE c
\* str.lower()
Lower(s) == [i \in 1..Len(s) |-> LowerChar(s[i])]
\* needle in hay
Contains(hay, needle) ==
  \E p \in 1..(Len(hay) + 1) :
    /\ p + Len(needle) - 1 <= Len(hay)
    /\ SubSeq(hay, p, p + Len(needle) - 1) = needle
\* text.startswith(lit, p - 1), p counted from 1
LitAt(text, p, lit) ==
  /\ p >= 1
  /\ p + Len(lit) - 1 <= Len(text)
  /\ SubSeq(text, p, p + Len(lit) - 1) = lit

\* str.strip()
RECURSIVE LStrip(_)
LStrip(s) == IF s # <<>> /\ IsSpace(Head(s)) THEN LStrip(Tail(s)) ELSE s
RECURSIVE RStrip(_)
RStrip(s) ==
  IF s # <<>> /\ IsSpace(s[Len(s)]) THEN RStrip(SubSeq(s, 1, Len(s) - 1)) ELSE s
Strip(s) == RStrip(LStrip(s))

\* ----------------------------------------------------------------- literals
STR_release == <<"r", "e", "l", "e", "a", "s", "e">>
STR_release_dash == STR_release \o <<"-">>
STR_dash_v == <<"-", "v">>
STR_slash_v == <<"/", "v">>
STR_h3 == <<"#", "#", "#">>
STR_h3_sp == STR_h3 \o <<" ">>
STR_sp_slash_sp == <<" ", "/", " ">>
STR_Release_sp == <<"R", "e", "l", "e", "a", "s", "e", " ">>
STR_Release_is_at == <<"R", "e", "l", "e", "a", "s", "e", " ", "i", "s", " ",
                       "a", "t", " ">>

\* Optional[...]: None and a set value
None == [set |-> FALSE, val |-> <<>>]
Some(v) == [set |-> TRUE, val |-> v]

\* ---------------------------------------------------------- regex: head ref
\* Where "$" matches without re.MULTILINE: at the end of the text and before
\* a newline that ends it.  The value is the number of characters before "$".
DollarEnds(s) ==
  {Len(s)} \cup (IF Len(s) >= 1 /\ s[Len(s)] = "\n" THEN {Len(s) - 1} ELSE {})

\* (\d\.\d.\d) of the head-ref pattern: the first separator is a literal
\* dot, the second one any character
IsHeadRefVersion(v) ==
  /\ Len(v) = 5
  /\ IsDigit(v[1]) /\ v[2] = "." /\ IsDigit(v[3]) /\ IsDot(v[4]) /\ IsDigit(v[5])

\* (\d.\d.\d) of the tag pattern: both separators are any character
IsTagVersion(v) ==
  /\ Len(v) = 5
  /\ IsDigit(v[1]) /\ IsDot(v[2]) /\ IsDigit(v[3]) /\ IsDot(v[4]) /\ IsDigit(v[5])

\* ([a-z-]+)
IsPackage(p) == Len(p) >= 1 /\ \A i \in 1..Len(p) : IsPkgChar(p[i])

\* The ends e at which ^release-([a-z-]+)-v(\d\.\d.\d)$ matches s[1..e].  The
\* version is the last five characters and "-v" the two before them, so the
\* groups are fixed by e whatever the engine's backtracking.
HeadRefEnds(s) ==
  {e \in DollarEnds(s) :
     /\ e >= Len(STR_release_dash) + 1 + 2 + 5
     /\ LitAt(s, 1, STR_release_dash)
     /\ IsPackage(SubSeq(s, Len(STR_release_dash) + 1, e - 7))
     /\ LitAt(s, e - 6, STR_dash_v)
     /\ IsHeadRefVersion(SubSeq(s, e - 4, e))}

\* re.match(r"^release-([a-z-]+)-v(\d\.\d.\d)$", head_ref)
MatchHeadRef(s) ==
  IF HeadRefEnds(s) = {}
    THEN [matched |-> FALSE, group1 |-> <<>>, group2 |-> <<>>]
    ELSE LET e == CHOOSE e \in HeadRefEnds(s) : TRUE
         IN  [matched |-> TRUE,
              group1 |-> SubSeq(s, Len(STR_release_dash) + 1, e - 7),
              group2 |-> SubSeq(s, e - 4, e)]

\* -------------------------------------------------------- regex: typed tag
TagEnds(s) ==
  {e \in DollarEnds(s) :
     /\ e >= 1 + 2 + 5
     /\ IsPackage(SubSeq(s, 1, e - 7))
     /\ LitAt(s, e - 6, STR_slash_v)
     /\ IsTagVersion(SubSeq(s, e - 4, e))}

\* re.match(r"^([a-z-]+)\/v(\d.\d.\d)$", ctx.release_tag)
MatchTag(s) ==
  IF TagEnds(s) = {}
    THEN [matched |-> FALSE, group1 |-> <<>>, group2 |-> <<>>]
    ELSE LET e == CHOOSE e \in TagEnds(s) : TRUE
         IN  [matched |-> TRUE,
              group1 |-> SubSeq(s, 1, e - 7),
              group2 |-> SubSeq(s, e - 4, e)]

\* f"{ctx.package_name}/v{ctx.release_version}"
ComposeTag_Dash(pkg, ver) == pkg \o STR_dash_v \o ver
ComposeTag(pkg, ver) == pkg \o STR_slash_v \o ver

\* -------------------------------------------------------- regex: changelog
\* The release version is pasted into the pattern unescaped: a "." of the
\* version is the wildcard (any character, re.DOTALL), every other character
\* of the versions explored here (digits and letters) stands for itself.
VersionPatternAt(text, p, ver) ==
  /\ p + Len(ver) - 1 <= Len(text)
  /\ \A i \in 1..Len(ver) : ver[i] = "." \/ text[p + i - 1] = ver[i]

\* \d\d\d\d-\d\d-\d\d
DateAt(text, p) ==
  /\ p + 9 <= Len(text)
  /\ \A i \in {0, 1, 2, 3, 5, 6, 8, 9} : IsDigit(text[p + i])
  /\ text[p + 4] = "-" /\ text[p + 7] = "-"

\* "^" with re.MULTILINE
LineStart(text, p) == p = 1 \/ (p > 1 /\ text[p - 1] = "\n")

\* Length of what "### {version} \/ \d\d\d\d-\d\d-\d\d\n" consumes
HeaderLen(ver) == Len(STR_h3_sp) + Len(ver) + Len(STR_sp_slash_sp) + 10 + 1

\* ^### {ctx.release_version} \/ \d\d\d\d-\d\d-\d\d\n matches at p
HeaderAt(text, p, ver) ==
  /\ LineStart(text, p)
  /\ LitAt(text, p, STR_h3_sp)
  /\ VersionPatternAt(text, p + Len(STR_h3_sp), ver)
  /\ LitAt(text, p + Len(STR_h3_sp) + Len(ver), STR_sp_slash_sp)
  /\ DateAt(text, p + Len(STR_h3_sp) + Len(ver) + Len(STR_sp_slash_sp))
  /\ LitAt(text, p + HeaderLen(ver) - 1, <<"\n">>)

\* (\n###\s|\Z) matches at t
TerminatorAt(text, t) ==
  \/ /\ LitAt(text, t, <<"\n">> \o STR_h3)
     /\ t + 4 <= Len(text)
     /\ IsSpace(text[t + 4])
  \/ t = Len(text) + 1

\* (?P<notes>.+?) starting at q: at least one character, then as few as
\* reach a terminator.  The end of the text is one, so it matches whenever
\* a character is left at q.
NotesEnd(text, q) ==
  LET ends == {r \in q..Len(text) : TerminatorAt(text, r + 1)}
  IN  CHOOSE r \in ends : \A r2 \in ends : r <= r2

\* The starts of the matches of the whole pattern
SectionStarts(text, ver) ==
  {p \in 1..Len(text) : HeaderAt(text, p, ver) /\ p + HeaderLen(ver) <= Len(text)}

\* re.search(...): the leftmost match; then match.group("notes").strip(), or ""
ExtractNotes(text, ver) ==
  IF SectionStarts(text, ver) = {}
    THEN <<>>
    ELSE LET p == CHOOSE p \in SectionStarts(text, ver) :
                    \A p2 \in SectionStarts(text, ver) : p <= p2
             q == p + HeaderLen(ver)
         IN  Strip(SubSeq(text, q, NotesEnd(text, q)))

\* pulls[i] for a Python index i: counted from the end when negative
PyIndexInRange(seq, i) == -Len(seq) <= i /\ i < Len(seq)
PyIndex(seq, i) == IF i >= 0 THEN seq[i + 1] ELSE seq[Len(seq) + i + 1]

\* [pull for pull in pulls if "release" in pull["title"].lower()]
RECURSIVE FilterRelease(_)
FilterRelease(ps) ==
  IF ps = <<>> THEN <<>>
  ELSE IF Contains(Lower(Head(ps).title), STR_release)
    THEN <<Head(ps)>> \o FilterRelease(Tail(ps))
    ELSE FilterRelease(Tail(ps))
\* [...][:30]
Candidates(ps) ==
  LET f == FilterRelease(ps)
  IN  IF Len(f) > MaxCandidates THEN SubSeq(f, 1, MaxCandidates) ELSE f

\* ------------------------------------------------------------------ inputs
\* What the collaborators and the user can hand to the pipeline.
T_Release == <<"R", "e", "l", "e", "a", "s", "e">>
T_PRERELEASE == <<"p", "r", "e", "R", "E", "L", "E", "A", "S", "E">>
T_Fix == <<"F", "i", "x">>

V_1_2_3 == <<"1", ".", "2", ".", "3">>
V_1_2_2 == <<"1", ".", "2", ".", "2">>
V_1_2x3 == <<"1", ".", "2", "x", "3">>
V_1x2_3 == <<"1", "x", "2", ".", "3">>

P_a == <<"a">>
P_a_b == <<"a", "-", "b">>

\* head branch names of closed pull requests
H_ok == STR_release_dash \o P_a_b \o STR_dash_v \o V_1_2_3
H_loose == STR_release_dash \o P_a \o STR_dash_v \o V_1_2x3
H_first == STR_release_dash \o P_a \o STR_dash_v \o V_1x2_3
H_nov == STR_release_dash \o P_a \o <<"-">> \o V_1_2_3
H_long == STR_release_dash \o P_a \o STR_dash_v \o V_1_2_3 \o <<"4">>

Pull(n, t, h) ==
  [number |-> n, title |-> t, head_ref |-> h,
   merge_commit_sha |-> <<"c", ToString(n)>>]

\* ctx.github.list_pull_requests(...) answers with a list over these
PullRequests ==
  {Pull(1, T_Release, H_ok), Pull(2, T_PRERELEASE, H_loose),
   Pull(3, T_Release, H_nov), Pull(4, T_Fix, H_ok),
   Pull(5, T_PRERELEASE, H_long), Pull(6, T_Release, H_first)}

PullLists == UNION {[1..n -> PullRequests] : n \in 0..MaxPulls}

\* click.prompt(..., type=int) returns any integer the user types
PullIdxs == (0 - MaxPulls - 1)..(MaxPulls + 1)

\* click.prompt(...) returns the line the user types: it is not empty and
\* holds no newline
TypedTags ==
  {P_a_b \o STR_slash_v \o V_1_2_3,
   P_a \o STR_slash_v \o V_1x2_3,
   P_a \o <<"/">> \o V_1_2_3,
   <<"A">> \o STR_slash_v \o V_1_2_3,
   P_a \o STR_slash_v \o <<"1", ".", "2">>}

\* CHANGELOG.md: up to MaxSections blocks, each a version section or a title
D_2020 == <<"2", "0", "2", "0", "-", "0", "1", "-", "0", "1">>
SectionHeader(v) == STR_h3_sp \o v \o STR_sp_slash_sp \o D_2020 \o <<"\n">>
Bodies ==
  {<<>>,
   <<"F", "i", "x", ".", "\n">>,
   <<"\n", "O", "k", " ", "\n", "\n">>}
Blocks ==
  {SectionHeader(v) \o b : v \in {V_1_2_3, V_1_2_2, V_1_2x3}, b \in Bodies}
    \cup {<<"#", " ", "L", "\n">>}
RECURSIVE Concat(_)
Concat(ss) == IF ss = <<>> THEN <<>> ELSE Head(ss) \o Concat(Tail(ss))
Changelogs ==
  {Concat(bs) : bs \in UNION {[1..n -> Blocks] : n \in 0..MaxSections}}

\* html_url of the release the hosting platform creates
Urls == {<<"u", "1">>, <<"u", "2">>}

\* circle.get_latest_build_by_tag(...): None, or a build record
NoBuild == [found |-> FALSE, build_num |-> 0]
Builds == {NoBuild, [found |-> TRUE, build_num |-> 7]}

\* circle.get_build_status_generator(...): a generator that yields items and
\* then stops (StopIteration), raises, or goes on yielding for ever
Lifecycle(i) == IF i = 1 THEN "queued" ELSE "running"
Streams ==
  {[items |-> [i \in 1..n |-> Lifecycle(i)], end |-> e, pos |-> 0] :
     n \in 0..MaxStatuses, e \in {"stop", "raise", "never"}}
NoStream == [items |-> <<>>, end |-> "stop", pos |-> 0]

\* ------------------------------------------------------------------- state
NullPull == Pull(0, <<>>, <<>>)

VARIABLES
  pc,            \* the statement of tag() and its callees that runs next
  ctx,           \* the Context record
  pulls,         \* determine_release_pr: the filtered candidates
  pull_idx,      \* determine_release_pr: the selection typed
  changelog,     \* get_release_notes: the decoded CHANGELOG.md
  release_request, \* the arguments ctx.github.create_release was called with
  comment,       \* the body create_pull_request_comment was called with
  tag_name,      \* wait_on_circle: the tag looked up
  fresh_build,   \* wait_on_circle: the build found
  stream,        \* wait_on_circle: the status generator
  state,         \* wait_on_circle: the status printed last
  trace,         \* the calls, prompts and stores made so far, in order
  failed         \* the call whose error is propagating, or "none"

vars == <<pc, ctx, pulls, pull_idx, changelog, release_request, comment,
          tag_name, fresh_build, stream, state, trace, failed>>

\* class Context
Context ==
  [package_name |-> None,
   release_pr |-> [set |-> FALSE, val |-> NullPull],
   release_tag |-> None,
   release_version |-> None,
   release_notes |-> None,
   github_release |-> None]

\* The statement a function of the pipeline starts with
Entry(f) ==
  CASE f = "determine_release_pr" -> "list_pull_requests"
    [] f = "determine_release_tag" -> "determine_release_tag"
    [] f = "get_release_notes" -> "get_release_notes"
    [] f = "create_release" -> "create_release"
    [] f = "wait_on_circle" -> "get_latest_build_by_tag"
    [] f = "all_done" -> "all_done"
    [] OTHER -> "done"

\* tag(): the functions in the order they are called, then the last message
TagSteps_ReleaseFirst ==
  <<"determine_release_pr", "determine_release_tag", "create_release",
    "get_release_notes", "wait_on_circle", "all_done">>
TagSteps ==
  <<"determine_release_pr", "determine_release_tag", "get_release_notes",
    "create_release", "wait_on_circle", "all_done">>

\* Where tag() goes on when function f returns
Return(f) ==
  LET i == CHOOSE i \in 1..Len(TagSteps) : TagSteps[i] = f
  IN  IF i < Len(TagSteps) THEN Entry(TagSteps[i + 1]) ELSE "done"

\* No statement of the module catches an exception: an error raised by a
\* call ends the run whatever statement would have come next.
Uncaught_Swallowed(resume) == resume
Uncaught(resume) == "aborted"

Init ==
  /\ pc = Entry(TagSteps[1])
  /\ ctx = Context
  /\ pulls = <<>>
  /\ pull_idx = [set |-> FALSE, val |-> 0]
  /\ changelog = None
  /\ release_request = [set |-> FALSE, tag_name |-> <<>>,
                        target_committish |-> <<>>, name |-> <<>>, body |-> <<>>]
  /\ comment = [set |-> FALSE, number |-> 0, body |-> <<>>]
  /\ tag_name = None
  /\ fresh_build = NoBuild
  /\ stream = NoStream
  /\ state = "none"
  /\ trace = <<>>
  /\ failed = "none"

\* A collaborator call raises
Raise(call, resume) ==
  /\ trace' = Append(trace, call)
  /\ failed' = call
  /\ pc' = Uncaught(resume)

\* ------------------------------------------------------ determine_release_pr
ListPullRequests ==
  /\ pc = "list_pull_requests"
  /\ \/ /\ Raise("list_pull_requests", "prompt_pull_idx")
        /\ UNCHANGED pulls
     \/ /\ \E answer \in PullLists : pulls' = Candidates(answer)
        /\ trace' = Append(trace, "list_pull_requests")
        /\ pc' = "prompt_pull_idx"
        /\ UNCHANGED failed
  /\ UNCHANGED <<ctx, pull_idx, changelog, release_request, comment, tag_name,
                 fresh_build, stream, state>>

\* pull_idx = click.prompt(...); ctx.release_pr = pulls[pull_idx - 1]
PromptPullIdx ==
  /\ pc = "prompt_pull_idx"
  /\ \E k \in PullIdxs :
       /\ pull_idx' = [set |-> TRUE, val |-> k]
       /\ IF PyIndexInRange(pulls, k - 1)
            THEN /\ ctx' = [ctx EXCEPT !.release_pr =
                                          Some(PyIndex(pulls, k - 1))]
                 /\ trace' = trace \o <<"prompt_pull_idx", "select_pr">>
                 /\ pc' = Return("determine_release_pr")
                 /\ UNCHANGED failed
            ELSE /\ trace' = Append(trace, "prompt_pull_idx")
                 /\ failed' = "IndexError"
                 /\ pc' = Uncaught(Return("determine_release_pr"))
                 /\ UNCHANGED ctx
  /\ UNCHANGED <<pulls, changelog, release_request, comment, tag_name,
                 fresh_build, stream, state>>

\* ----------------------------------------------------- determine_release_tag
DetermineReleaseTag ==
  /\ pc = "determine_release_tag"
  /\ LET head_ref == ctx.release_pr.val.head_ref
         match == MatchHeadRef(head_ref)
     IN  IF match.matched
           THEN /\ ctx' = [ctx EXCEPT
                             !.package_name = Some(match.group1),
                             !.release_version = Some(match.group2),
                             !.release_tag =
                               Some(ComposeTag(match.group1, match.group2))]
                /\ trace' = Append(trace, "derive_tag")
                /\ pc' = Return("determine_release_tag")
           ELSE /\ pc' = "prompt_release_tag"
                /\ UNCHANGED <<ctx, trace>>
  \* the locals of determine_release_pr are gone
  /\ pulls' = <<>>
  /\ pull_idx' = [set |-> FALSE, val |-> 0]
  /\ UNCHANGED <<changelog, release_request, comment, tag_name, fresh_build,
                 stream, state, failed>>

\* ctx.release_tag = click.prompt(...); determine_package_name_and_version(ctx)
PromptReleaseTag ==
  /\ pc = "prompt_release_tag"
  /\ \E typed \in TypedTags :
       LET match == MatchTag(typed)
       IN  IF match.matched
             THEN /\ ctx' = [ctx EXCEPT
                               !.release_tag = Some(typed),
                               !.package_name = Some(match.group1),
                               !.release_version = Some(match.group2)]
                  /\ trace' = trace \o <<"prompt_release_tag", "derive_tag">>
                  /\ pc' = Return("determine_release_tag")
                  /\ UNCHANGED failed
             \* match is None: match.group(1) raises AttributeError
             ELSE /\ ctx' = [ctx EXCEPT !.release_tag = Some(typed)]
                  /\ trace' = Append(trace, "prompt_release_tag")
                  /\ failed' = "AttributeError"
                  /\ pc' = Uncaught(Return("determine_release_tag"))
  /\ UNCHANGED <<pulls, pull_idx, changelog, release_request, comment,
                 tag_name, fresh_build, stream, state>>

\* --------------------------------------------------------- get_release_notes
GetReleaseNotes ==
  /\ pc = "get_release_notes"
  /\ \/ /\ Raise("get_contents", Return("get_release_notes"))
        /\ UNCHANGED <<ctx, changelog>>
     \/ /\ \E text \in Changelogs :
             /\ changelog' = Some(text)
             /\ ctx' = [ctx EXCEPT !.release_notes =
                          Some(ExtractNotes(text, ctx.release_version.val))]
        /\ trace' = trace \o <<"get_contents", "set_release_notes">>
        /\ pc' = Return("get_release_notes")
        /\ UNCHANGED failed
  /\ UNCHANGED <<pulls, pull_idx, release_request, comment, tag_name,
                 fresh_build, stream, state>>

\* ------------------------------------------------------------ create_release
\* tag_name=ctx.release_version
ReleaseTagName_Combined(c) == c.release_tag.val
ReleaseTagName(c) == c.release_version.val

\* name=f"Release {ctx.package_name} {ctx.release_version}"
ReleaseName(c) ==
  STR_Release_sp \o c.package_name.val \o <<" ">> \o c.release_version.val

\* f"Release is at {ctx.github_release['html_url']}"
ReleaseLocationString(c) == STR_Release_is_at \o c.github_release.val

CreateRelease ==
  /\ pc = "create_release"
  /\ release_request' =
       [set |-> TRUE,
        tag_name |-> ReleaseTagName(ctx),
        target_committish |-> ctx.release_pr.val.merge_commit_sha,
        name |-> ReleaseName(ctx),
        body |-> ctx.release_notes.val]
  /\ \/ /\ Raise("create_release", "create_pull_request_comment")
        /\ UNCHANGED ctx
     \/ /\ \E url \in Urls : ctx' = [ctx EXCEPT !.github_release = Some(url)]
        /\ trace' = Append(trace, "create_release")
        /\ pc' = "create_pull_request_comment"
        /\ UNCHANGED failed
  \* the locals of get_release_notes are gone
  /\ changelog' = None
  /\ UNCHANGED <<pulls, pull_idx, comment, tag_name, fresh_build, stream,
                 state>>

CreatePullRequestComment ==
  /\ pc = "create_pull_request_comment"
  /\ comment' = [set |-> TRUE, number |-> ctx.release_pr.val.number,
                 body |-> ReleaseLocationString(ctx)]
  /\ \/ Raise("create_pull_request_comment", Return("create_release"))
     \/ /\ trace' = Append(trace, "create_pull_request_comment")
        /\ pc' = Return("create_release")
        /\ UNCHANGED failed
  /\ UNCHANGED <<ctx, pulls, pull_idx, changelog, release_request, tag_name,
                 fresh_build, stream, state>>

\* ------------------------------------------------------------ wait_on_circle
\* tag_name = f"{ctx.package_name}/v{ctx.release_version}"
CircleTagName(c) == c.package_name.val \o STR_slash_v \o c.release_version.val

\* if fresh_build:
BuildTruthy_Always(b) == TRUE
BuildTruthy(b) == b.found

GetLatestBuildByTag ==
  /\ pc = "get_latest_build_by_tag"
  /\ tag_name' = Some(CircleTagName(ctx))
  /\ \/ /\ Raise("get_latest_build_by_tag", "get_build_status_generator")
        /\ UNCHANGED fresh_build
     \/ /\ \E b \in Builds :
             /\ fresh_build' = b
             /\ pc' = IF BuildTruthy(b) THEN "get_build_status_generator"
                                        ELSE Return("wait_on_circle")
        /\ trace' = Append(trace, "get_latest_build_by_tag")
        /\ UNCHANGED failed
  /\ UNCHANGED <<ctx, pulls, pull_idx, changelog, release_request, comment,
                 stream, state>>

\* circle.get_build_status_generator(fresh_build["build_num"])
GetBuildStatusGenerator ==
  /\ pc = "get_build_status_generator"
  /\ \/ /\ Raise("get_build_status_generator", "next_state")
        /\ UNCHANGED stream
     \/ /\ \E s \in Streams : stream' = s
        /\ trace' = Append(trace, "get_build_status_generator")
        /\ pc' = "next_state"
        /\ UNCHANGED failed
  /\ UNCHANGED <<ctx, pulls, pull_idx, changelog, release_request, comment,
                 tag_name, fresh_build, state>>

\* The for loop ends when the generator is exhausted, and only then
LoopExits_AfterOne(s) == s.pos >= 1 \/ (s.pos = Len(s.items) /\ s.end = "stop")
LoopExits(s) == s.pos = Len(s.items) /\ s.end = "stop"

\* for state in <generator>: one step of the iteration
NextState ==
  /\ pc = "next_state"
  /\ IF LoopExits(stream)
       THEN /\ pc' = Return("wait_on_circle")
            /\ UNCHANGED <<stream, state, failed>>
       ELSE IF stream.pos < Len(stream.items)
         THEN /\ state' = stream.items[stream.pos + 1]
              /\ stream' = [stream EXCEPT !.pos = @ + 1]
              /\ UNCHANGED <<pc, failed>>
       ELSE IF stream.end = "raise"
         THEN /\ failed' = "next_state"
              /\ pc' = Uncaught(Return("wait_on_circle"))
              /\ UNCHANGED <<stream, state>>
         \* a stream that does not end: one more status, printed over the last
         ELSE /\ state' = Lifecycle(stream.pos + 1)
              /\ UNCHANGED <<pc, stream, failed>>
  /\ UNCHANGED <<ctx, pulls, pull_idx, changelog, release_request, comment,
                 tag_name, fresh_build, trace>>

\* click.secho("\\o/ All done!")
AllDone ==
  /\ pc = "all_done"
  /\ trace' = Append(trace, "all_done")
  /\ pc' = "done"
  /\ UNCHANGED <<ctx, pulls, pull_idx, changelog, release_request, comment,
                 tag_name, fresh_build, stream, state, failed>>

Next ==
  \/ ListPullRequests
  \/ PromptPullIdx
  \/ DetermineReleaseTag
  \/ PromptReleaseTag
  \/ GetReleaseNotes
  \/ CreateRelease
  \/ CreatePullRequestComment
  \/ GetLatestBuildByTag
  \/ GetBuildStatusGenerator
  \/ NextState
  \/ AllDone

Spec == Init /\ [][Next]_vars

\* tag() is one thread of straight-line code: the statement that is next runs
FairSpec == Spec /\ WF_vars(Next)

\* ------------------------------------------------------- reading the trace
Has(name) == \E i \in 1..Len(trace) : trace[i] = name
Count(name) == Cardinality({i \in 1..Len(trace) : trace[i] = name})
IsPrefix(s, t) == Len(s) <= Len(t) /\ SubSeq(t, 1, Len(s)) = s

\* The order of the pipeline's calls, prompts and stores, with the manual
\* tag prompt and the status generator present or absent
PipelineOrder(manual, polled) ==
  <<"list_pull_requests", "prompt_pull_idx", "select_pr">>
    \o (IF manual THEN <<"prompt_release_tag">> ELSE <<>>)
    \o <<"derive_tag", "get_contents", "set_release_notes", "create_release",
         "create_pull_request_comment", "get_latest_build_by_tag">>
    \o (IF polled THEN <<"get_build_status_generator">> ELSE <<>>)
    \o <<"all_done">>

CollaboratorCalls ==
  {"list_pull_requests", "get_contents", "create_release",
   "create_pull_request_comment", "get_latest_build_by_tag",
   "get_build_status_generator"}

\* digit "." digit "." digit, both separators literal dots
IsStrictVersion(v) ==
  /\ Len(v) = 5
  /\ IsDigit(v[1]) /\ v[2] = "." /\ IsDigit(v[3]) /\ v[4] = "." /\ IsDigit(v[5])

\* <package>/v<digit>.<digit>.<digit>
IsStrictTag(s) ==
  /\ Len(s) >= 8
  /\ IsPackage(SubSeq(s, 1, Len(s) - 7))
  /\ LitAt(s, Len(s) - 6, STR_slash_v)
  /\ IsStrictVersion(SubSeq(s, Len(s) - 4, Len(s)))

\* release-<package>-v<digit>.<digit>.<digit>
IsStrictHeadRef(s) ==
  /\ Len(s) >= 16
  /\ LitAt(s, 1, STR_release_dash)
  /\ IsPackage(SubSeq(s, 9, Len(s) - 7))
  /\ LitAt(s, Len(s) - 6, STR_dash_v)
  /\ IsStrictVersion(SubSeq(s, Len(s) - 4, Len(s)))

\* A line "### <version> / YYYY-MM-DD" for exactly this version starts at p
ExactHeaderAt(text, p, ver) ==
  /\ LineStart(text, p)
  /\ LitAt(text, p, STR_h3_sp \o ver \o STR_sp_slash_sp)
  /\ DateAt(text, p + Len(STR_h3_sp) + Len(ver) + Len(STR_sp_slash_sp))
  /\ LitAt(text, p + HeaderLen(ver) - 1, <<"\n">>)

\* A "###" header line starts at t
H3LineAt(text, t) ==
  /\ LineStart(text, t)
  /\ LitAt(text, t, STR_h3)
  /\ t + 3 <= Len(text)
  /\ IsSpace(text[t + 3])

\* The trimmed text between the version's header and the next "###" header
\* or the end of the file; "" without such a header
SectionText(text, ver) ==
  LET starts == {p \in 1..Len(text) : ExactHeaderAt(text, p, ver)}
  IN  IF starts = {} THEN <<>>
      ELSE LET p == CHOOSE p \in starts : \A p2 \in starts : p <= p2
               q == p + HeaderLen(ver)
               nexts == {t \in q..Len(text) : H3LineAt(text, t)} \cup {Len(text) + 1}
               t == CHOOSE t \in nexts : \A t2 \in nexts : t <= t2
           IN  Strip(SubSeq(text, q, t - 1))

\* ------------------------------------------------------------------- claims

\* C1: the steps of tag() happen in the fixed order select pull request,
\* derive tag, fetch changelog and set notes, create_release, comment, CI
\* lookup and polling, completion message, each at most once; create_release
\* is called only with release_pr, package_name, release_version and
\* release_notes set; the comment is posted only after create_release has
\* returned and holds that release's html_url.
C1_StepsInOrder ==
  /\ \E manual \in BOOLEAN, polled \in BOOLEAN :
       IsPrefix(trace, PipelineOrder(manual, polled))
  /\ release_request.set =>
       /\ ctx.release_pr.set /\ ctx.package_name.set
       /\ ctx.release_version.set /\ ctx.release_notes.set
  /\ comment.set =>
       /\ ctx.github_release.set
       /\ Count("create_release") = 1
       /\ comment.body = STR_Release_is_at \o ctx.github_release.val
       /\ Contains(comment.body, ctx.github_release.val)
  /\ state # "none" => Has("get_build_status_generator")

\* C1 witness: a run through the manual prompt and the polling loop is done
C1_Witness ==
  /\ pc = "done"
  /\ Has("prompt_release_tag")
  /\ state = "running"
  /\ trace = PipelineOrder(TRUE, TRUE)

\* C2: an error of a collaborator call ends the run there: the call is not
\* made again, no later call is made, the completion message is not printed;
\* after a failure of get_contents no release is created and no comment posted.
C2_ErrorsAbort ==
  /\ failed # "none" =>
       /\ pc = "aborted"
       /\ ~Has("all_done")
       /\ failed \in CollaboratorCalls =>
            trace[Len(trace)] = failed /\ Count(failed) = 1
       /\ failed = "next_state" =>
            trace[Len(trace)] = "get_build_status_generator"
  /\ failed = "get_contents" =>
       /\ ~release_request.set /\ ~ctx.github_release.set /\ ~comment.set
       /\ ~Has("create_release") /\ ~Has("create_pull_request_comment")
  /\ pc = "aborted" => failed # "none" /\ ~ENABLED Next

\* C2 witness: get_contents has raised
C2_Witness == failed = "get_contents" /\ pc = "aborted" /\ ctx.release_tag.set

\* C3: once determine_release_tag has completed, release_tag is
\* package_name + "/v" + release_version, in every later state, and the tag
\* looked up on the CI is ctx.release_tag.
C3_TagIsPackageSlashVersion ==
  /\ Has("derive_tag") =>
       /\ ctx.package_name.set /\ ctx.release_version.set /\ ctx.release_tag.set
       /\ ctx.release_tag.val =
            ctx.package_name.val \o <<"/", "v">> \o ctx.release_version.val
  /\ tag_name.set => tag_name.val = ctx.release_tag.val

\* C3 witness: the tag was typed, and the run has looked up the CI build
C3_Witness ==
  /\ Has("prompt_release_tag") /\ Has("derive_tag")
  /\ release_request.set /\ tag_name.set

\* C4: a selection outside 1..n fails and stores no pull request; a
\* selection k in 1..n stores the k-th candidate.
C4_OutOfRangeSelectionFails ==
  pull_idx.set =>
    IF pull_idx.val \in 1..Len(pulls)
      THEN ctx.release_pr.set /\ ctx.release_pr.val = pulls[pull_idx.val]
      ELSE pc = "aborted" /\ ~ctx.release_pr.set

\* C5: a typed tag that is not <package>/v<digit>.<digit>.<digit> ends the
\* run: one prompt, package_name and release_version unset, no get_contents,
\* no create_release.
C5_MalformedTypedTagAborts ==
  (Has("prompt_release_tag") /\ ~IsStrictTag(ctx.release_tag.val)) =>
    /\ pc = "aborted"
    /\ Count("prompt_release_tag") = 1
    /\ ~ctx.package_name.set /\ ~ctx.release_version.set
    /\ ~Has("get_contents") /\ ~Has("create_release")

\* C6: the tag is derived without a prompt exactly when the head ref is
\* release-<package>-v<digit>.<digit>.<digit>, the version then being
\* digit "." digit "." digit and the tag <package>/v<version>; every other
\* head ref leads to the prompt.
C6_AutomaticIffStrictHeadRef ==
  LET decided == Has("derive_tag") \/ Has("prompt_release_tag")
                   \/ pc = "prompt_release_tag"
      automatic == Has("derive_tag") /\ ~Has("prompt_release_tag")
  IN  decided =>
        /\ automatic <=> IsStrictHeadRef(ctx.release_pr.val.head_ref)
        /\ automatic =>
             /\ IsStrictVersion(ctx.release_version.val)
             /\ ctx.release_tag.val =
                  ctx.package_name.val \o <<"/", "v">> \o ctx.release_version.val

\* C7: after get_release_notes, release_notes is the trimmed text between
\* the header of exactly this version and the next "###" header or the end
\* of the file, and "" when the changelog has no such header.
C7_NotesAreTheSection ==
  (changelog.set /\ ctx.release_notes.set) =>
    ctx.release_notes.val = SectionText(changelog.val, ctx.release_version.val)

\* C8: create_release is called once, with the bare version as tag_name,
\* the pull request's merge commit, the name "Release <package> <version>"
\* and the release notes as body; the CI lookup uses <package>/v<version>,
\* which is not the tag the release was created with.
C8_ReleaseTaggedWithBareVersion ==
  /\ Count("create_release") <= 1
  /\ release_request.set =>
       /\ Count("create_release") = 1
       /\ release_request.tag_name = ctx.release_version.val
       /\ release_request.tag_name # ctx.release_tag.val
       /\ release_request.target_committish = ctx.release_pr.val.merge_commit_sha
       /\ release_request.name =
            <<"R", "e", "l", "e", "a", "s", "e", " ">> \o ctx.package_name.val
              \o <<" ">> \o ctx.release_version.val
       /\ release_request.body = ctx.release_notes.val
  /\ tag_name.set =>
       /\ tag_name.val =
            ctx.package_name.val \o <<"/", "v">> \o ctx.release_version.val
       /\ tag_name.val # release_request.tag_name

\* C8 witness: the release was created with notes and the CI was looked up
C8_Witness ==
  /\ release_request.set /\ release_request.body # <<>>
  /\ ctx.github_release.set /\ tag_name.set

\* C9: when get_latest_build_by_tag finds no build, the status generator is
\* never asked for, nothing raises, and the run goes on to the completion
\* message.
C9_NoBuildSkipsPolling ==
  (Has("get_latest_build_by_tag") /\ failed = "none" /\ ~fresh_build.found) =>
    /\ ~Has("get_build_status_generator")
    /\ stream = NoStream /\ state = "none"
    /\ pc \in {"all_done", "done"}
    /\ pc = "done" => Has("all_done")

\* C9 witness: a run without a build is done
C9_Witness ==
  /\ pc = "done" /\ Has("get_latest_build_by_tag") /\ ~fresh_build.found
  /\ Has("all_done")

\* C10: the loop takes the statuses in order, one at a time, and leaves only
\* when the stream ends: with a stream that stops the run completes, with a
\* stream that does not end it never completes.
C10_PollsUntilStreamEnds ==
  /\ [][(pc = "next_state" /\ pc' # "next_state") =>
          /\ stream.pos = Len(stream.items)
          /\ \/ stream.end = "stop" /\ pc' = "all_done"
             \/ stream.end = "raise" /\ pc' = "aborted"]_vars
  /\ [][(pc = "next_state" /\ stream.pos < Len(stream.items)) =>
          /\ stream'.pos = stream.pos + 1
          /\ state' = stream.items[stream.pos + 1]
          /\ pc' = "next_state"]_vars
  /\ [](pc = "next_state" /\ stream.end = "stop" => <>(pc = "done"))
  /\ [](pc = "next_state" /\ stream.end = "never" => [](pc # "done"))

\* C10 witness: a stream of two statuses was consumed and the run is done
C10_Witness ==
  /\ pc = "done" /\ Has("get_build_status_generator")
  /\ Len(stream.items) >= 2 /\ stream.pos = Len(stream.items)
  /\ state = stream.items[Len(stream.items)]

====
